---- MODULE Spec2Model ----
(***************************************************************************)
(* Model of kidnap_dashboard.py: a Streamlit script that is executed from  *)
(* top to bottom on every user interaction.  One action per section of the *)
(* script; `pc` is the section the run executes next.  An exception raised *)
(* by a section stops the run there (crashed = TRUE, pc stays put).        *)
(***************************************************************************)
EXTENDS Integers, Sequences, FiniteSets, TLC

\* ------------------------------------------------------------------------
\* Bounds of the model: the datasets kidnaps.csv may hold.
\* ------------------------------------------------------------------------
\* Rows of a dataset that holds no full year of a state.
MaxRows == 2

\* Rows that precede the full year of a dataset that holds one.
MaxPrefixRows == 1

Years == {2024, 2025}

StateNames == {"FCT", "KADUNA"}

BaseMonths == {1, 2}

\* (incidents, victims) of a row
Counts == {<<0, 1>>, <<1, 2>>}

Rows ==
  { [year |-> y, month |-> m, state |-> s, incidents |-> c[1], victims |-> c[2]] :
      y \in Years, m \in BaseMonths, s \in StateNames, c \in Counts }

\* Twelve rows, one per month, of one state and year: the only way a filtered
\* view can hold all twelve months.
FullYear ==
  [m \in 1..12 |->
     [year |-> 2024, month |-> m, state |-> "FCT", incidents |-> 1, victims |-> 2]]

SeqsUpTo(n) == UNION { [1..k -> Rows] : k \in 0..n }

Datasets ==
  SeqsUpTo(MaxRows) \cup { prefix \o FullYear : prefix \in SeqsUpTo(MaxPrefixRows) }

\* ------------------------------------------------------------------------
\* Program constants
\* ------------------------------------------------------------------------
\* month_map, lines 31-35; list(month_map.values()) is the same sequence.
month_map ==
  << "January", "February", "March", "April", "May", "June", "July",
     "August", "September", "October", "November", "December" >>

\* default= of the "Select States" multiselect (line 49) and of the comparison
\* multiselect (line 178), restricted to the states of the model.
default_states == {"FCT", "KADUNA", "ZAMFARA", "KATSINA"} \cap StateNames

\* Python's str ordering of the month names (groupby and pivot_table sort keys).
MonthNameOrder ==
  << "April", "August", "December", "February", "January", "July", "June",
     "March", "May", "November", "October", "September" >>

\* Python's str ordering of the state names.
StateOrder == << "FCT", "KADUNA" >>

IndexOf(seq, x) == CHOOSE i \in DOMAIN seq : seq[i] = x

Range(seq) == { seq[i] : i \in DOMAIN seq }

MonthNameRank == [name \in Range(MonthNameOrder) |-> IndexOf(MonthNameOrder, name)]

StateRank == [name \in Range(StateOrder) |-> IndexOf(StateOrder, name)]

\* a < b on two state names
StateLess(a, b) == StateRank[a] < StateRank[b]

\* The sections of the script, in execution order.
Sections ==
  << "load", "sidebar", "filter", "metrics", "trends", "states", "heatmap",
     "comparison", "table", "download", "done" >>

VARIABLES
  file,                       \* contents of kidnaps.csv
  cache,                      \* st.cache_data store of load_data: <<>> or <<rows>>
  ui_years, ui_states,        \* widget state of the sidebar multiselects: <<>> or <<set>>
  ui_comparison,              \* widget state of the comparison multiselect
  pc, crashed, error,         \* position of the run, and the exception that stopped it
  df,
  selected_years, selected_states,
  filtered_df,
  total_incidents, total_victims, avg_victims_per_incident, max_state,
  trend_incidents, trend_victims, trend_comparison,
  state_incidents, state_victims,
  heatmap_data,
  selected_comparison_states, comparison_df, comparison_series,
  table, csv

session == << file, cache, ui_years, ui_states, ui_comparison >>

script ==
  << df, selected_years, selected_states, filtered_df,
     total_incidents, total_victims, avg_victims_per_incident, max_state,
     trend_incidents, trend_victims, trend_comparison,
     state_incidents, state_victims, heatmap_data,
     selected_comparison_states, comparison_df, comparison_series, table, csv >>

vars == << session, pc, crashed, error, script >>

Pos(section) == IndexOf(Sections, section)

\* The section has run to its end in the current run.
Completed(section) == Pos(pc) > Pos(section)

\* The section raised in the current run.
Failed(section) == crashed /\ pc = section


\* ------------------------------------------------------------------------
\* pandas operations used by the script
\* ------------------------------------------------------------------------
\* df['month'].map(month_map): a month outside the mapping gives NaN.
MapMonth(m) == IF m \in DOMAIN month_map THEN month_map[m] ELSE "NaN"

\* pd.read_csv plus df['month_name'] = df['month'].map(month_map), lines 26-36.
AddMonthName(rows) ==
  [i \in DOMAIN rows |->
     [year |-> rows[i].year, month |-> rows[i].month, state |-> rows[i].state,
      incidents |-> rows[i].incidents, victims |-> rows[i].victims,
      month_name |-> MapMonth(rows[i].month)]]

\* frame[col].unique() as a set
Unique(frame, col) == { frame[i][col] : i \in DOMAIN frame }

\* frame[mask]: the rows whose mask entry is True, in the frame's order.
BooleanIndex(frame, mask) ==
  LET F[n \in 0..Len(frame)] ==
        IF n = 0 THEN <<>>
        ELSE IF mask[n] THEN Append(F[n - 1], frame[n]) ELSE F[n - 1]
  IN  F[Len(frame)]

\* Series.isin(values)
IsIn(frame, col, values) == [i \in DOMAIN frame |-> frame[i][col] \in values]

\* Mutant of FilterBySelections: an empty selection is taken as "select all".
FilterBySelectionsOrAll(frame, years, states) ==
  BooleanIndex(frame,
    [i \in DOMAIN frame |->
       /\ (years = {} \/ frame[i].year \in years)
       /\ (states = {} \/ frame[i].state \in states)])

\* lines 53-56: df[(df['year'].isin(...)) & (df['state'].isin(...))]
FilterBySelections(frame, years, states) ==
  BooleanIndex(frame,
    [i \in DOMAIN frame |->
       IsIn(frame, "year", years)[i] /\ IsIn(frame, "state", states)[i]])

\* frame[col].sum(); 0 for an empty frame
SumCol(frame, col) ==
  LET F[n \in 0..Len(frame)] == IF n = 0 THEN 0 ELSE F[n - 1] + frame[n][col]
  IN  F[Len(frame)]

\* a < b on two tuples of integers of the same length (Python compares
\* tuples lexicographically).
LexLess(a, b) ==
  \E i \in DOMAIN a : a[i] < b[i] /\ \A j \in 1..(i - 1) : a[j] = b[j]

\* sorted(S) for a finite set of tuples of integers of the same length.
SortTuples(S) ==
  LET smaller == [x \in S |-> Cardinality({ y \in S : LexLess(y, x) })]
  IN  [k \in 1..Cardinality(S) |-> CHOOSE x \in S : smaller[x] = k - 1]

\* Sort key of sort_values(['year', 'month', 'state']), line 198; the state,
\* a str, by its rank.
TableKey(row) == << row.year, row.month, StateRank[row.state] >>

\* DataFrame.sort_values(['year', 'month', 'state']): a sort on several
\* columns is a lexsort, which keeps the order of rows with equal keys.
SortValuesByYearMonthState(frame) ==
  LET n == Len(frame)
      key == [i \in 1..n |-> TableKey(frame[i])]
      before == [i \in 1..n |->
                   Cardinality({ j \in 1..n :
                       \/ LexLess(key[j], key[i])
                       \/ (key[j] = key[i] /\ j < i) })]
  IN  [k \in 1..n |-> frame[CHOOSE i \in 1..n : before[i] = k - 1]]

\* groupby('state')[col].sum(): one entry per state of the frame, sorted by
\* state name (groupby sorts its keys).
GroupByState(frame, col) ==
  LET keys == SortTuples({ << StateRank[s] >> : s \in Unique(frame, "state") })
  IN  [k \in DOMAIN keys |->
         [state |-> StateOrder[keys[k][1]],
          value |-> SumCol(BooleanIndex(frame,
                             IsIn(frame, "state", {StateOrder[keys[k][1]]})), col)]]

\* Series.idxmax(): the label of the first occurrence of the maximum.
\* (Raises ValueError on an empty series: the caller tests for that.)
IdxMax(series) ==
  LET best == CHOOSE i \in DOMAIN series :
                /\ \A j \in DOMAIN series : series[j].value <= series[i].value
                /\ \A j \in 1..(i - 1) : series[j].value < series[i].value
  IN  series[best].state

\* Group key (year, month_name, month) of a row, the month name, a str, by
\* its rank: the keys compare as tuples.
TrendKey(row) == << row.year, MonthNameRank[row.month_name], row.month >>

\* The rows of a frame whose (year, month_name, month) is the key.
TrendGroup(frame, key) ==
  BooleanIndex(frame,
    [i \in DOMAIN frame |->
       frame[i].month_name # "NaN" /\ TrendKey(frame[i]) = key])

\* The sorted group keys; groupby drops the keys that hold NaN.
TrendKeys(frame) ==
  SortTuples({ TrendKey(frame[i]) :
                 i \in { j \in DOMAIN frame : frame[j].month_name # "NaN" } })

\* groupby(['year','month_name','month'])[col].sum().reset_index(), lines 89, 101
GroupByMonth(frame, col) ==
  LET keys == TrendKeys(frame)
  IN  [k \in DOMAIN keys |->
         [year |-> keys[k][1], month_name |-> MonthNameOrder[keys[k][2]],
          month |-> keys[k][3],
          value |-> SumCol(TrendGroup(frame, keys[k]), col)]]

\* groupby([...]).agg({'incidents': 'sum', 'victims': 'sum'}).reset_index(), line 113
GroupByMonthAgg(frame) ==
  LET keys == TrendKeys(frame)
  IN  [k \in DOMAIN keys |->
         [year |-> keys[k][1], month_name |-> MonthNameOrder[keys[k][2]],
          month |-> keys[k][3],
          incidents |-> SumCol(TrendGroup(frame, keys[k]), "incidents"),
          victims |-> SumCol(TrendGroup(frame, keys[k]), "victims")]]

\* Series.sort_values(ascending=False) with the default kind='quicksort': the
\* result is in descending order of the values; quicksort is not a stable
\* sort, so the order of entries with equal values is whatever the sort of
\* the build produces.  The set of the results it can produce.
SortValuesDescending(series) ==
  LET n == Len(series)
      perms == { p \in [1..n -> 1..n] : \A i, j \in 1..n : i # j => p[i] # p[j] }
  IN  { [k \in 1..n |-> series[p[k]]] :
          p \in { q \in perms :
                    \A i, j \in 1..n :
                       i < j => series[q[i]].value >= series[q[j]].value } }

\* pivot_table(index='state', columns='month_name', values='incidents',
\* aggfunc='sum'), lines 154-158: the rows are the states of the frame and the
\* columns the month names of the frame, both sorted; a cell is <<sum>>, or
\* <<>> (NaN) when no row of the frame has that state and month name.
PivotTable(frame) ==
  LET kept == BooleanIndex(frame, [i \in DOMAIN frame |-> frame[i].month_name # "NaN"])
      states == SortTuples({ << StateRank[s] >> : s \in Unique(kept, "state") })
      names == SortTuples({ << MonthNameRank[mn] >> : mn \in Unique(kept, "month_name") })
      index == [k \in DOMAIN states |-> StateOrder[states[k][1]]]
      columns == [k \in DOMAIN names |-> MonthNameOrder[names[k][1]]]
      cell(s, mn) ==
        LET group == BooleanIndex(kept,
                       [i \in DOMAIN kept |->
                          kept[i].state = s /\ kept[i].month_name = mn])
        IN  IF Len(group) = 0 THEN <<>> ELSE << SumCol(group, "incidents") >>
  IN  [index |-> index, columns |-> columns,
       values |-> [c \in Unique(kept, "state") \X Unique(kept, "month_name") |->
                     cell(c[1], c[2])]]

\* pivot[labels], line 159: the columns named by labels, in that order.
\* (Raises KeyError when a label is no column: the caller tests for that.)
SelectColumns(pivot, labels) ==
  [index |-> pivot.index, columns |-> labels,
   values |-> [c \in Range(pivot.index) \X Range(labels) |-> pivot.values[c]]]

\* round(num / den, 1) on numpy integers, line 76, as << kind, tenths >>.
\* Rounds half to even; a division by zero gives nan or inf, not an exception.
Round1(num, den) ==
  IF den = 0
  THEN (IF num = 0 THEN << "nan", 0 >> ELSE << "inf", 0 >>)
  ELSE LET q == (10 * num) \div den
           r == (10 * num) % den
       IN  << "float",
              IF 2 * r < den THEN q
              ELSE IF 2 * r > den THEN q + 1
              ELSE IF q % 2 = 0 THEN q ELSE q + 1 >>

\* Mutant of AvgVictimsPerIncident: the division without its guard.
AvgVictimsPerIncidentUnguarded(victims, incidents) == Round1(victims, incidents)

\* line 76: the conditional expression; the int 0 when there is no incident.
AvgVictimsPerIncident(victims, incidents) ==
  IF incidents > 0 THEN Round1(victims, incidents) ELSE << "int", 0 >>

\* groupby(['year','month_name','month','state'])['incidents'].sum().reset_index()
GroupByMonthState(frame) ==
  LET key == [i \in DOMAIN frame |->
                IF frame[i].month_name = "NaN" THEN <<>>
                ELSE TrendKey(frame[i]) \o << StateRank[frame[i].state] >>]
      keys == SortTuples({ key[i] : i \in DOMAIN frame } \ { <<>> })
  IN  [k \in DOMAIN keys |->
         [year |-> keys[k][1], month_name |-> MonthNameOrder[keys[k][2]],
          month |-> keys[k][3], state |-> StateOrder[keys[k][4]],
          value |-> SumCol(BooleanIndex(frame, [i \in DOMAIN frame |-> key[i] = keys[k]]),
                           "incidents")]]

\* Mutant of ToCsv: the export of the sorted frame of the "Raw Data" table.
ToCsvSorted(frame) ==
  LET sorted == SortValuesByYearMonthState(frame)
  IN  [header |-> << "year", "month", "state", "incidents", "victims", "month_name" >>,
       rows |-> [i \in DOMAIN sorted |->
                   << sorted[i].year, sorted[i].month, sorted[i].state,
                      sorted[i].incidents, sorted[i].victims, sorted[i].month_name >>]]

\* DataFrame.to_csv(index=False), line 203: a header line with the column
\* names and one line per row with the row's fields in column order.
ToCsv(frame) ==
  [header |-> << "year", "month", "state", "incidents", "victims", "month_name" >>,
   rows |-> [i \in DOMAIN frame |->
               << frame[i].year, frame[i].month, frame[i].state,
                  frame[i].incidents, frame[i].victims, frame[i].month_name >>]]

\* ------------------------------------------------------------------------
\* The script
\* ------------------------------------------------------------------------
NoPivot == [index |-> <<>>, columns |-> <<>>, values |-> <<>>]

NoCsv == [header |-> <<>>, rows |-> <<>>]

\* The names of a run that has not assigned them yet.
Unassigned ==
  /\ df = <<>> /\ selected_years = {} /\ selected_states = {}
  /\ filtered_df = <<>>
  /\ total_incidents = 0 /\ total_victims = 0
  /\ avg_victims_per_incident = << "int", 0 >> /\ max_state = ""
  /\ trend_incidents = <<>> /\ trend_victims = <<>> /\ trend_comparison = <<>>
  /\ state_incidents = <<>> /\ state_victims = <<>>
  /\ heatmap_data = NoPivot
  /\ selected_comparison_states = {} /\ comparison_df = <<>>
  /\ comparison_series = <<>>
  /\ table = <<>> /\ csv = NoCsv

Init ==
  /\ file \in Datasets
  /\ cache = <<>>
  /\ ui_years = <<>> /\ ui_states = <<>> /\ ui_comparison = <<>>
  /\ pc = "load" /\ crashed = FALSE /\ error = ""
  /\ Unassigned

Goto(section) == pc' = section /\ UNCHANGED << crashed, error >>

Raise(exception) == pc' = pc /\ crashed' = TRUE /\ error' = exception

At(section) == pc = section /\ ~crashed

\* Lines 23-36.  st.cache_data runs load_data once and afterwards hands out a
\* copy of the stored frame; the month_name column is added to that copy.
LoadData ==
  /\ At("load")
  /\ cache' = IF cache = <<>> THEN << file >> ELSE cache
  /\ df' = AddMonthName(cache'[1])
  /\ Goto("sidebar")
  /\ UNCHANGED << file, ui_years, ui_states, ui_comparison,
                  selected_years, selected_states, filtered_df,
                  total_incidents, total_victims, avg_victims_per_incident, max_state,
                  trend_incidents, trend_victims, trend_comparison,
                  state_incidents, state_victims, heatmap_data,
                  selected_comparison_states, comparison_df, comparison_series, table, csv >>

\* Lines 38-50.  A multiselect returns its widget state, which is its default
\* until the user changes it; it raises StreamlitAPIException when a default
\* value is not among its options.
SidebarFilters ==
  /\ At("sidebar")
  /\ ui_years' = IF ui_years = <<>> THEN << Unique(df, "year") >> ELSE ui_years
  /\ selected_years' = ui_years'[1]
  /\ IF default_states \subseteq Unique(df, "state")
     THEN /\ ui_states' = IF ui_states = <<>> THEN << default_states >> ELSE ui_states
          /\ selected_states' = ui_states'[1]
          /\ Goto("filter")
     ELSE /\ UNCHANGED << ui_states, selected_states >>
          /\ Raise("StreamlitAPIException")
  /\ UNCHANGED << file, cache, ui_comparison, df, filtered_df,
                  total_incidents, total_victims, avg_victims_per_incident, max_state,
                  trend_incidents, trend_victims, trend_comparison,
                  state_incidents, state_victims, heatmap_data,
                  selected_comparison_states, comparison_df, comparison_series, table, csv >>

\* Mutant of FilterData: the filter narrows the cached frame in place.
FilterDataInPlace ==
  /\ At("filter")
  /\ filtered_df' = FilterBySelections(df, selected_years, selected_states)
  /\ cache' = << filtered_df' >>
  /\ Goto("metrics")
  /\ UNCHANGED << file, ui_years, ui_states, ui_comparison,
                  df, selected_years, selected_states,
                  total_incidents, total_victims, avg_victims_per_incident, max_state,
                  trend_incidents, trend_victims, trend_comparison,
                  state_incidents, state_victims, heatmap_data,
                  selected_comparison_states, comparison_df, comparison_series, table, csv >>

\* Lines 52-56.
FilterData ==
  /\ At("filter")
  /\ filtered_df' = FilterBySelections(df, selected_years, selected_states)
  /\ Goto("metrics")
  /\ UNCHANGED << session, df, selected_years, selected_states,
                  total_incidents, total_victims, avg_victims_per_incident, max_state,
                  trend_incidents, trend_victims, trend_comparison,
                  state_incidents, state_victims, heatmap_data,
                  selected_comparison_states, comparison_df, comparison_series, table, csv >>

\* Lines 64-81.  idxmax of an empty series raises ValueError; nothing in the
\* script catches it, so the run stops in the fourth column.
KeyMetrics ==
  /\ At("metrics")
  /\ total_incidents' = SumCol(filtered_df, "incidents")
  /\ total_victims' = SumCol(filtered_df, "victims")
  /\ avg_victims_per_incident' = AvgVictimsPerIncident(total_victims', total_incidents')
  /\ LET by_state == GroupByState(filtered_df, "incidents")
     IN  IF Len(by_state) = 0
         THEN UNCHANGED max_state /\ Raise("ValueError")
         ELSE max_state' = IdxMax(by_state) /\ Goto("trends")
  /\ UNCHANGED << session, df, selected_years, selected_states, filtered_df,
                  trend_incidents, trend_victims, trend_comparison,
                  state_incidents, state_victims, heatmap_data,
                  selected_comparison_states, comparison_df, comparison_series, table, csv >>

\* Lines 83-124: the frames handed to px.line in the three tabs.
MonthlyTrends ==
  /\ At("trends")
  /\ trend_incidents' = GroupByMonth(filtered_df, "incidents")
  /\ trend_victims' = GroupByMonth(filtered_df, "victims")
  /\ trend_comparison' = GroupByMonthAgg(filtered_df)
  /\ Goto("states")
  /\ UNCHANGED << session, df, selected_years, selected_states, filtered_df,
                  total_incidents, total_victims, avg_victims_per_incident, max_state,
                  state_incidents, state_victims, heatmap_data,
                  selected_comparison_states, comparison_df, comparison_series, table, csv >>

\* Lines 126-150.
StateAnalysis ==
  /\ At("states")
  /\ state_incidents' \in SortValuesDescending(GroupByState(filtered_df, "incidents"))
  /\ state_victims' \in SortValuesDescending(GroupByState(filtered_df, "victims"))
  /\ Goto("heatmap")
  /\ UNCHANGED << session, df, selected_years, selected_states, filtered_df,
                  total_incidents, total_victims, avg_victims_per_incident, max_state,
                  trend_incidents, trend_victims, trend_comparison, heatmap_data,
                  selected_comparison_states, comparison_df, comparison_series, table, csv >>

\* Lines 152-171.  Selecting the twelve month columns raises KeyError when
\* one of them is no column of the pivot table.
Heatmap ==
  /\ At("heatmap")
  /\ LET pivot == PivotTable(filtered_df)
     IN  IF Range(month_map) \subseteq Range(pivot.columns)
         THEN heatmap_data' = SelectColumns(pivot, month_map) /\ Goto("comparison")
         ELSE UNCHANGED heatmap_data /\ Raise("KeyError")
  /\ UNCHANGED << session, df, selected_years, selected_states, filtered_df,
                  total_incidents, total_victims, avg_victims_per_incident, max_state,
                  trend_incidents, trend_victims, trend_comparison,
                  state_incidents, state_victims,
                  selected_comparison_states, comparison_df, comparison_series, table, csv >>

\* Lines 173-194.
StateComparison ==
  /\ At("comparison")
  /\ IF default_states \subseteq Unique(df, "state")
     THEN /\ ui_comparison' =
               IF ui_comparison = <<>> THEN << default_states >> ELSE ui_comparison
          /\ selected_comparison_states' = ui_comparison'[1]
          /\ comparison_df' =
               IF selected_comparison_states' # {}
               THEN BooleanIndex(filtered_df,
                      IsIn(filtered_df, "state", selected_comparison_states'))
               ELSE <<>>
          /\ comparison_series' =
               IF selected_comparison_states' # {}
               THEN GroupByMonthState(comparison_df')
               ELSE <<>>
          /\ Goto("table")
     ELSE /\ UNCHANGED << ui_comparison, selected_comparison_states, comparison_df,
                       comparison_series >>
          /\ Raise("StreamlitAPIException")
  /\ UNCHANGED << file, cache, ui_years, ui_states,
                  df, selected_years, selected_states, filtered_df,
                  total_incidents, total_victims, avg_victims_per_incident, max_state,
                  trend_incidents, trend_victims, trend_comparison,
                  state_incidents, state_victims, heatmap_data, table, csv >>

\* Lines 196-198: the frame shown by st.dataframe.
RawData ==
  /\ At("table")
  /\ table' = SortValuesByYearMonthState(filtered_df)
  /\ Goto("download")
  /\ UNCHANGED << session, df, selected_years, selected_states, filtered_df,
                  total_incidents, total_victims, avg_victims_per_incident, max_state,
                  trend_incidents, trend_victims, trend_comparison,
                  state_incidents, state_victims, heatmap_data,
                  selected_comparison_states, comparison_df, comparison_series, csv >>

\* Lines 200-206: the data of the download button.
Download ==
  /\ At("download")
  /\ csv' = ToCsv(filtered_df)
  /\ Goto("done")
  /\ UNCHANGED << session, df, selected_years, selected_states, filtered_df,
                  total_incidents, total_victims, avg_victims_per_incident, max_state,
                  trend_incidents, trend_victims, trend_comparison,
                  state_incidents, state_victims, heatmap_data,
                  selected_comparison_states, comparison_df, comparison_series, table >>

\* The run has ended: at the last line, or at the exception that stopped it.
Finished == pc = "done" \/ crashed

\* A widget change makes Streamlit run the script again from its first line,
\* with fresh names.  (A change during a run stops that run and starts the
\* next one the same way; the runs modelled here are the ones left to end.)
Rerun ==
  /\ Finished
  /\ pc' = "load" /\ crashed' = FALSE /\ error' = ""
  /\ df' = <<>> /\ selected_years' = {} /\ selected_states' = {}
  /\ filtered_df' = <<>>
  /\ total_incidents' = 0 /\ total_victims' = 0
  /\ avg_victims_per_incident' = << "int", 0 >> /\ max_state' = ""
  /\ trend_incidents' = <<>> /\ trend_victims' = <<>> /\ trend_comparison' = <<>>
  /\ state_incidents' = <<>> /\ state_victims' = <<>>
  /\ heatmap_data' = NoPivot
  /\ selected_comparison_states' = {} /\ comparison_df' = <<>>
  /\ comparison_series' = <<>>
  /\ table' = <<>> /\ csv' = NoCsv

\* The user changes the "Select Years" multiselect (shown once rendered).
ChangeYears ==
  /\ ui_years # <<>>
  /\ \E years \in SUBSET Unique(cache[1], "year") :
        /\ years # ui_years[1]
        /\ ui_years' = << years >>
  /\ Rerun
  /\ UNCHANGED << file, cache, ui_states, ui_comparison >>

\* The user changes the "Select States" multiselect.
ChangeStates ==
  /\ ui_states # <<>>
  /\ \E states \in SUBSET Unique(cache[1], "state") :
        /\ states # ui_states[1]
        /\ ui_states' = << states >>
  /\ Rerun
  /\ UNCHANGED << file, cache, ui_years, ui_comparison >>

\* The user changes the "Select states to compare:" multiselect.
ChangeComparison ==
  /\ ui_comparison # <<>>
  /\ \E states \in SUBSET Unique(cache[1], "state") :
        /\ states # ui_comparison[1]
        /\ ui_comparison' = << states >>
  /\ Rerun
  /\ UNCHANGED << file, cache, ui_years, ui_states >>

Next ==
  \/ LoadData
  \/ SidebarFilters
  \/ FilterData
  \/ KeyMetrics
  \/ MonthlyTrends
  \/ StateAnalysis
  \/ Heatmap
  \/ StateComparison
  \/ RawData
  \/ Download
  \/ ChangeYears
  \/ ChangeStates
  \/ ChangeComparison

Spec == Init /\ [][Next]_vars

\* ------------------------------------------------------------------------
\* Properties
\* ------------------------------------------------------------------------
\* The section has been executed in the current run: to its end or to an
\* exception.
Executed(section) == Completed(section) \/ Failed(section)

\* Sum of a column over the rows of a frame at the given indexes.
SumAt(frame, col, indexes) ==
  LET F[n \in 0..Len(frame)] ==
        IF n = 0 THEN 0
        ELSE F[n - 1] + (IF n \in indexes THEN frame[n][col] ELSE 0)
  IN  F[Len(frame)]

\* C1: the filtered view is exactly the subsequence of the records, in their
\* original relative order, of the records with year in the selected years and
\* state in the selected states; an empty selection gives an empty view.
C1_FilteredViewIsExactSubsequence ==
  Completed("filter") =>
    LET keep == { i \in DOMAIN df :
                    df[i].year \in selected_years /\ df[i].state \in selected_states }
    IN  /\ Len(filtered_df) = Cardinality(keep)
        /\ \A i \in keep : filtered_df[Cardinality({ j \in keep : j <= i })] = df[i]
        /\ (selected_years = {} \/ selected_states = {}) => filtered_df = <<>>

\* A view that keeps at least two records and drops at least one.
C1_Witness ==
  /\ Completed("filter")
  /\ Len(filtered_df) >= 2
  /\ Len(filtered_df) < Len(df)
  /\ \E i, j \in DOMAIN df :
        /\ i < j
        /\ ~(df[i].year \in selected_years /\ df[i].state \in selected_states)
        /\ df[j].year \in selected_years /\ df[j].state \in selected_states

\* C2: with an empty filtered view the "Highest State" lookup does not crash
\* the run: the run reaches its last line and the metric is left empty.
C2_EmptyViewTopStateHandled ==
  (Completed("filter") /\ filtered_df = <<>> /\ Finished) =>
    (pc = "done" /\ ~crashed /\ max_state = "")

\* The incidents of the view's records of a state and month.
CellSum(s, m) ==
  SumAt(filtered_df, "incidents",
        { i \in DOMAIN filtered_df :
            filtered_df[i].state = s /\ filtered_df[i].month = m })

\* C3: the heatmap has one row per state of the filtered view and the twelve
\* month columns in calendar order; a cell with no record holds 0 and every
\* other cell the sum of the incidents of its state and month.
C3_HeatmapZeroFilled ==
  Executed("heatmap") =>
    /\ Len(heatmap_data.index) = Cardinality(Unique(filtered_df, "state"))
    /\ Range(heatmap_data.index) = Unique(filtered_df, "state")
    /\ heatmap_data.columns = month_map
    /\ \A s \in Unique(filtered_df, "state") : \A m \in DOMAIN month_map :
          heatmap_data.values[<< s, month_map[m] >>] = << CellSum(s, m) >>

\* C4: apart from the TopState lookup no filter or aggregation step raises,
\* whatever the selection: the only exception of such a step is the one of
\* the fourth metric.
C4_AggregationsNeverRaise ==
  crashed => (pc = "metrics" \/ error = "StreamlitAPIException")

\* A series of state totals lists each state of the view once, with the sum
\* of the metric, in descending order, equal sums in state-name order.
StableStateTotals(series, col) ==
  /\ Len(series) = Cardinality(Unique(filtered_df, "state"))
  /\ { series[k].state : k \in DOMAIN series } = Unique(filtered_df, "state")
  /\ \A k \in DOMAIN series :
        series[k].value =
          SumAt(filtered_df, col,
                { i \in DOMAIN filtered_df : filtered_df[i].state = series[k].state })
  /\ \A i, j \in DOMAIN series :
        i < j =>
          \/ series[i].value > series[j].value
          \/ /\ series[i].value = series[j].value
             /\ StateLess(series[i].state, series[j].state)

\* C5: StateTotals of each metric is in descending order of the sums, and two
\* states with equal sums are in state-name order.
C5_StateTotalsStableDescending ==
  Completed("states") =>
    /\ StableStateTotals(state_incidents, "incidents")
    /\ StableStateTotals(state_victims, "victims")

\* (year, month, state) of two CSV lines: the first is not after the second.
CsvKeyNotAfter(a, b) ==
  \/ a[1] < b[1]
  \/ a[1] = b[1] /\ a[2] < b[2]
  \/ a[1] = b[1] /\ a[2] = b[2] /\ ~StateLess(b[3], a[3])

\* C6 as stated: the rows of the CSV export are in ascending order of
\* (year, month, state).
C6_CsvRowsSorted ==
  Completed("download") =>
    \A i \in 1..(Len(csv.rows) - 1) : CsvKeyNotAfter(csv.rows[i], csv.rows[i + 1])

\* C6 as amended: the rows of the CSV export are the rows of the filtered
\* view in the view's own (source) order; it is the table shown under
\* "Raw Data" that holds them in ascending order of (year, month, state).
C6_CsvRowsInViewOrder ==
  Completed("download") =>
    /\ Len(csv.rows) = Len(filtered_df)
    /\ \A i \in DOMAIN filtered_df :
          csv.rows[i] = << filtered_df[i].year, filtered_df[i].month,
                           filtered_df[i].state, filtered_df[i].incidents,
                           filtered_df[i].victims, filtered_df[i].month_name >>
    /\ Len(table) = Len(filtered_df)
    /\ \A r \in Range(filtered_df) :
          Cardinality({ i \in DOMAIN table : table[i] = r })
            = Cardinality({ i \in DOMAIN filtered_df : filtered_df[i] = r })
    /\ \A i \in 1..(Len(table) - 1) :
          \/ table[i].year < table[i + 1].year
          \/ table[i].year = table[i + 1].year /\ table[i].month < table[i + 1].month
          \/ /\ table[i].year = table[i + 1].year
             /\ table[i].month = table[i + 1].month
             /\ ~StateLess(table[i + 1].state, table[i].state)

\* An export whose rows are not in ascending order of (year, month, state).
C6_Witness ==
  /\ Completed("download")
  /\ \E i \in 1..(Len(csv.rows) - 1) : ~CsvKeyNotAfter(csv.rows[i], csv.rows[i + 1])

\* Sum of the cells of a heatmap row; an empty cell adds nothing.
HeatmapRowSum(s) ==
  LET cols == heatmap_data.columns
      F[n \in 0..Len(cols)] ==
        IF n = 0 THEN 0
        ELSE LET cell == heatmap_data.values[<< s, cols[n] >>]
             IN  F[n - 1] + (IF cell = <<>> THEN 0 ELSE cell[1])
  IN  F[Len(cols)]

\* C7: for every state of the filtered view, the cells of its heatmap row add
\* up to the incidents of the view's records of that state.
C7_HeatmapRowSumsMatch ==
  Executed("heatmap") =>
    \A s \in Unique(filtered_df, "state") :
      /\ s \in Range(heatmap_data.index)
      /\ HeatmapRowSum(s) =
           SumAt(filtered_df, "incidents",
                 { i \in DOMAIN filtered_df : filtered_df[i].state = s })

\* A monthly series holds, year by year, one entry per month that has a
\* record of that year in the view, with the sum of the metric, the months of
\* a year in calendar order.
CalendarSeries(series, col) ==
  /\ { << series[k].year, series[k].month >> : k \in DOMAIN series }
       = { << filtered_df[i].year, filtered_df[i].month >> : i \in DOMAIN filtered_df }
  /\ \A k \in DOMAIN series :
        /\ series[k].month_name = month_map[series[k].month]
        /\ series[k].value =
             SumAt(filtered_df, col,
                   { i \in DOMAIN filtered_df :
                       /\ filtered_df[i].year = series[k].year
                       /\ filtered_df[i].month = series[k].month })
  /\ \A i, j \in DOMAIN series :
        (i < j /\ series[i].year = series[j].year) => series[i].month < series[j].month

\* C8: the series handed to the line charts are in calendar order of the
\* month and hold exactly the months present in the view.
C8_MonthlySeriesCalendarOrder ==
  Completed("trends") =>
    /\ CalendarSeries(trend_incidents, "incidents")
    /\ CalendarSeries(trend_victims, "victims")

\* C9: the average is victims / incidents, rounded to one decimal, when there
\* are incidents; with no incident nothing is divided and it is the int 0.
C9_AverageGuarded ==
  Executed("metrics") =>
    IF total_incidents > 0
    THEN /\ avg_victims_per_incident[1] = "float"
         /\ LET tenths == avg_victims_per_incident[2]
                diff == 10 * total_victims - tenths * total_incidents
            IN  /\ 2 * diff <= total_incidents
                /\ 2 * diff >= -total_incidents
    ELSE avg_victims_per_incident = << "int", 0 >>

\* A view that is not empty, whose records all have 0 incidents and some
\* victims.
C9_Witness ==
  /\ Executed("metrics")
  /\ filtered_df # <<>>
  /\ total_incidents = 0
  /\ total_victims > 0
  /\ avg_victims_per_incident = << "int", 0 >>

\* The row of the frame is the record of the file, with its month name.
SameRecord(row, rec) ==
  /\ row.year = rec.year /\ row.month = rec.month /\ row.state = rec.state
  /\ row.incidents = rec.incidents /\ row.victims = rec.victims

\* C10: after any sequence of filter changes the loaded records are those of
\* the file, in the file's order, and the filtered view and the aggregates of
\* a run that has ended are those of the file and the current selection of
\* the widgets alone.
C10_RecomputedFromSourceAndSelection ==
  /\ cache = <<>> \/ cache = << file >>
  /\ Completed("load") =>
       /\ Len(df) = Len(file)
       /\ \A i \in DOMAIN file : SameRecord(df[i], file[i])
  /\ (Finished /\ Completed("filter")) =>
       LET keep == { i \in DOMAIN file :
                       file[i].year \in ui_years[1] /\ file[i].state \in ui_states[1] }
       IN  /\ Len(filtered_df) = Cardinality(keep)
           /\ \A i \in keep :
                 SameRecord(filtered_df[Cardinality({ j \in keep : j <= i })], file[i])
           /\ total_incidents = SumCol(filtered_df, "incidents")
           /\ total_victims = SumCol(filtered_df, "victims")
           /\ avg_victims_per_incident
                = AvgVictimsPerIncident(total_victims, total_incidents)
           /\ Completed("metrics") =>
                max_state = IdxMax(GroupByState(filtered_df, "incidents"))
           /\ Completed("trends") =>
                /\ trend_incidents = GroupByMonth(filtered_df, "incidents")
                /\ trend_victims = GroupByMonth(filtered_df, "victims")
                /\ trend_comparison = GroupByMonthAgg(filtered_df)
           /\ Completed("states") =>
                /\ state_incidents
                     \in SortValuesDescending(GroupByState(filtered_df, "incidents"))
                /\ state_victims
                     \in SortValuesDescending(GroupByState(filtered_df, "victims"))
           /\ Completed("heatmap") =>
                heatmap_data = SelectColumns(PivotTable(filtered_df), month_map)
           /\ Completed("download") =>
                /\ table = SortValuesByYearMonthState(filtered_df)
                /\ csv = ToCsv(filtered_df)

\* A run that has reached its last line after the user changed both the
\* years and the states away from their defaults.
C10_Witness ==
  /\ pc = "done"
  /\ ui_years[1] # Unique(df, "year")
  /\ ui_states[1] # default_states
  /\ filtered_df # <<>>
  /\ Len(filtered_df) < Len(df)

====
